---- MODULE Spec2Model ----
(***************************************************************************)
(* A model of pypee's orchestration core (src/Pypeline.py): the operator   *)
(* wrappers Handle / Wrangler / Loader, the Task status machine, and the   *)
(* Pipe that owns the wrappers and a map of tasks.                         *)
(*                                                                         *)
(* Every method of the source is an operator that takes the object (a      *)
(* record) and the outcome the environment chose for each user-supplied    *)
(* capability call, and returns the changed object together with what the  *)
(* call returned or raised.  The actions at the end apply one public       *)
(* method each.                                                            *)
(***************************************************************************)
EXTENDS Naturals, Sequences, FiniteSets, TLC

VARIABLES
    pipes,  \* Pipeline.pipes: the Pipe objects, in insertion order
    last    \* observation of the last call: method, result, capability calls

vars == <<pipes, last>>

----------------------------------------------------------------------------
\* Bounds of the model.

\* Tasks in a Pipe's task_map.
NumTasks == 2

\* Requests of a MultiRequestTask (its `requests` mapping).
MaxRequests == 2

\* Cap on the responses a MultiRequestTask accumulates in data['handle'].
MaxHandleData == 4
NumPipes == 2

----------------------------------------------------------------------------
\* Values.

None == "None"

OpStatus == {"uninitialized", "initialized", "fail"}

TaskStatus == {"pending", "incomplete", "complete", "fail"}

PipeStatus == {"idle", "ready", "incomplete", "complete", "fail"}

\* What a user-supplied callable (a constructor, get_data, wrangle, load) does
\* when it is called: it returns a value or it raises.
Outcomes == {"ok", "raise"}

\* What get_data, wrangle or load can do when a wrapper's run is called on
\* its own: return a value, return None, or raise.
RunOutcomes == {"ok", "none", "raise"}

Stages == <<"handle", "wrangle", "load">>

TaskTypes == {"SingleRequestTask", "MultiRequestTask"}

\* `F(v)` with v evaluated once: the value a local name is bound to.
Bind(v, F(_)) == CHOOSE x \in {F(r) : r \in {v}} : TRUE

----------------------------------------------------------------------------
\* Operator wrappers: Handle, Wrangler, Loader.

\* Handle.__init__ / Wrangler.__init__ / Loader.__init__ with
\* OperatorUtils.__init__: a wrapper starts UNINITIALIZED with no error.
NewOperator(catch) ==
    [present |-> TRUE, status |-> "uninitialized", initialize_error |-> None,
     catch_runtime_errors |-> catch]

\* `Wrangler(wrangler) if wrangler else None`: the attribute holds no wrapper.
NoOperator ==
    [present |-> FALSE, status |-> "uninitialized", initialize_error |-> None,
     catch_runtime_errors |-> TRUE]

\* A faulty Handle.initialize that C11 must tell from the real one: it
\* records the exception and returns FAIL where the source raises again.
Handle_initialize_swallows(self, outcome) ==
    IF outcome = "ok"
    THEN [self |-> [self EXCEPT !.status = "initialized"],
          raised |-> None, ret |-> "initialized"]
    ELSE [self |-> [self EXCEPT !.status = "fail",
                                !.initialize_error = "Exception"],
          raised |-> None, ret |-> "fail"]

\* Handle.initialize: construct the client; on an exception record it, set
\* FAIL and raise it again.
Handle_initialize(self, outcome) ==
    IF outcome = "ok"
    THEN [self |-> [self EXCEPT !.status = "initialized"],
          raised |-> None, ret |-> "initialized"]
    ELSE [self |-> [self EXCEPT !.status = "fail",
                                !.initialize_error = "Exception"],
          raised |-> "Exception", ret |-> None]

\* Wrangler.initialize.
Wrangler_initialize(self, outcome) ==
    IF outcome = "ok"
    THEN [self |-> [self EXCEPT !.status = "initialized"],
          raised |-> None, ret |-> "initialized"]
    ELSE [self |-> [self EXCEPT !.status = "fail",
                                !.initialize_error = "Exception"],
          raised |-> "Exception", ret |-> None]

\* Loader.initialize.
Loader_initialize(self, outcome) ==
    IF outcome = "ok"
    THEN [self |-> [self EXCEPT !.status = "initialized"],
          raised |-> None, ret |-> "initialized"]
    ELSE [self |-> [self EXCEPT !.status = "fail",
                                !.initialize_error = "Exception"],
          raised |-> "Exception", ret |-> None]

\* A faulty _catch_runtime_errors that C15 must tell from the real one: it
\* catches whatever the flag says.
catch_runtime_errors_always(self, r) ==
    IF r.raised = None
    THEN [response |-> r.response, error |-> None, raised |-> None,
          called |-> r.called]
    ELSE [response |-> None, error |-> r.raised, raised |-> None,
          called |-> r.called]

\* OperatorUtils._catch_runtime_errors: `r` is what the decorated function
\* did.  Not catching: (func(...), None), an exception passing through.
\* Catching: (response, None), or (None, error) for an exception.
catch_runtime_errors(self, r) ==
    IF ~self.catch_runtime_errors
    THEN [response |-> r.response, error |-> None, raised |-> r.raised,
          called |-> r.called]
    ELSE IF r.raised = None
         THEN [response |-> r.response, error |-> None, raised |-> None,
               called |-> r.called]
         ELSE [response |-> None, error |-> r.raised, raised |-> None,
               called |-> r.called]

\* What a capability call returns for an outcome that is not "raise": None
\* for "none", a response without columns for "ok", and the response named
\* for any other outcome.
ReturnValue(outcome) ==
    IF outcome = "none" THEN None
    ELSE IF outcome = "ok" THEN "response"
    ELSE outcome

\* Handle.run: get_data only when INITIALIZED, a StatusError otherwise.
Handle_run(self, outcome) ==
    catch_runtime_errors(self,
        IF self.status = "initialized"
        THEN IF outcome = "raise"
             THEN [response |-> None, raised |-> "Exception", called |-> TRUE]
             ELSE [response |-> ReturnValue(outcome), raised |-> None,
                   called |-> TRUE]
        ELSE [response |-> None, raised |-> "StatusError", called |-> FALSE])

\* Wrangler.run.
Wrangler_run(self, outcome) ==
    catch_runtime_errors(self,
        IF self.status = "initialized"
        THEN IF outcome = "raise"
             THEN [response |-> None, raised |-> "Exception", called |-> TRUE]
             ELSE [response |-> ReturnValue(outcome), raised |-> None,
                   called |-> TRUE]
        ELSE [response |-> None, raised |-> "StatusError", called |-> FALSE])

\* Loader.run.
Loader_run(self, outcome) ==
    catch_runtime_errors(self,
        IF self.status = "initialized"
        THEN IF outcome = "raise"
             THEN [response |-> None, raised |-> "Exception", called |-> TRUE]
             ELSE [response |-> ReturnValue(outcome), raised |-> None,
                   called |-> TRUE]
        ELSE [response |-> None, raised |-> "StatusError", called |-> FALSE])

----------------------------------------------------------------------------
\* Requests as text: json.dumps, the placeholder pattern, json.loads.
\*
\* A text is a sequence of characters.  The characters that json or the
\* pattern treat specially stand for themselves; a longer string such as
\* "ids" stands for a run of ordinary characters.  A request is a dict of
\* text fields, kept as the sequence of its [key, value] items.

Quote == "\""

Backslash == "\\"

Tab == "\t"

\* The key and the default of `request.get("%separator%", ", ")`.
SeparatorKey == <<"%separator%">>

DefaultSeparator == <<",", " ">>

\* dict.get on a request.
RECURSIVE Get(_, _, _)
Get(request, key, default) ==
    IF request = << >>
    THEN default
    ELSE IF Head(request).key = key
    THEN Head(request).value
    ELSE Get(Tail(request), key, default)

\* json.dumps of the inside of a string: quote, backslash and control
\* characters are escaped.
RECURSIVE Escape(_)
Escape(text) ==
    IF text = << >>
    THEN << >>
    ELSE (CASE Head(text) = Quote     -> <<Backslash, Quote>>
            [] Head(text) = Backslash -> <<Backslash, Backslash>>
            [] Head(text) = Tab       -> <<Backslash, "t">>
            [] OTHER                  -> <<Head(text)>>)
         \o Escape(Tail(text))

\* json.dumps of a string.
JsonString(text) == <<Quote>> \o Escape(text) \o <<Quote>>

\* json.dumps of the items of a dict: `"key": "value"` joined by `, `.
RECURSIVE json_dumps_items(_)
json_dumps_items(request) ==
    IF request = << >>
    THEN << >>
    ELSE JsonString(Head(request).key) \o <<":", " ">>
         \o JsonString(Head(request).value)
         \o (IF Len(request) > 1 THEN <<",", " ">> ELSE << >>)
         \o json_dumps_items(Tail(request))

\* json.dumps(request).
json_dumps(request) == <<"{">> \o json_dumps_items(request) \o <<"}">>

\* The first position from i on that holds no space.
RECURSIVE SkipSpace(_, _)
SkipSpace(text, i) ==
    IF i <= Len(text) /\ text[i] = " " THEN SkipSpace(text, i + 1) ELSE i

\* json.loads of a string from position i, behind its opening quote: the
\* text up to the closing quote with the escapes undone.  A raw control
\* character, an unknown escape or a missing closing quote is an error.
RECURSIVE ParseString(_, _, _)
ParseString(text, i, value) ==
    IF i > Len(text) \/ text[i] = Tab
    THEN [ok |-> FALSE, value |-> value, next |-> i]
    ELSE IF text[i] = Quote
    THEN [ok |-> TRUE, value |-> value, next |-> i + 1]
    ELSE IF text[i] # Backslash
    THEN ParseString(text, i + 1, Append(value, text[i]))
    ELSE IF i + 1 <= Len(text) /\ text[i + 1] \in {Quote, Backslash}
    THEN ParseString(text, i + 2, Append(value, text[i + 1]))
    ELSE IF i + 1 <= Len(text) /\ text[i + 1] = "t"
    THEN ParseString(text, i + 2, Append(value, Tab))
    ELSE [ok |-> FALSE, value |-> value, next |-> i]

\* A dict item assignment: a key that is present keeps its place.
Put(request, key, value) ==
    IF \E n \in DOMAIN request : request[n].key = key
    THEN [n \in DOMAIN request |->
            IF request[n].key = key THEN [key |-> key, value |-> value]
            ELSE request[n]]
    ELSE Append(request, [key |-> key, value |-> value])

\* json.loads of the items of an object from position i on.
RECURSIVE ParseItems(_, _, _)
ParseItems(text, i, request) ==
    LET failed == [raised |-> "JSONDecodeError", ret |-> request]
        k == SkipSpace(text, i)
    IN  IF k > Len(text) \/ text[k] # Quote
        THEN failed
        ELSE Bind(ParseString(text, k + 1, << >>),
                  LAMBDA key :
             LET c == SkipSpace(text, key.next)
                 v == SkipSpace(text, c + 1)
             IN  IF ~key.ok \/ c > Len(text) \/ text[c] # ":"
                    \/ v > Len(text) \/ text[v] # Quote
                 THEN failed
                 ELSE Bind(ParseString(text, v + 1, << >>),
                           LAMBDA value :
                      LET e == SkipSpace(text, value.next)
                          items == Put(request, key.value, value.value)
                      IN  IF ~value.ok \/ e > Len(text)
                          THEN failed
                          ELSE IF text[e] = ","
                          THEN ParseItems(text, e + 1, items)
                          ELSE IF text[e] = "}"
                                  /\ SkipSpace(text, e + 1) > Len(text)
                          THEN [raised |-> None, ret |-> items]
                          ELSE failed))

\* json.loads of the text of a dict of strings.
json_loads(text) ==
    IF Len(text) >= 2 /\ text[1] = "{"
    THEN ParseItems(text, 2, << >>)
    ELSE [raised |-> "JSONDecodeError", ret |-> << >>]

\* Series.unique().tolist(): the values in order of first appearance.
RECURSIVE unique(_, _)
unique(values, seen) ==
    IF values = << >>
    THEN seen
    ELSE unique(Tail(values),
                IF \E n \in DOMAIN seen : seen[n] = Head(values)
                THEN seen ELSE Append(seen, Head(values)))

\* separator.join(map(str, unique_values)); a value is kept as its str().
RECURSIVE Join(_, _)
Join(values, separator) ==
    IF values = << >>
    THEN << >>
    ELSE IF Len(values) = 1
    THEN Head(values)
    ELSE Head(values) \o separator \o Join(Tail(values), separator)

\* A faulty hook that C17 must tell from the real one: it takes the values
\* from the last response whenever that has the column.
hook_recomputes(match, separator, cached_unique_values, last_response) ==
    IF match \in DOMAIN last_response
    THEN [ret |-> Join(unique(last_response[match], << >>), separator),
          cache |-> (match :> unique(last_response[match], << >>))
                    @@ cached_unique_values,
          raised |-> None]
    ELSE IF match \in DOMAIN cached_unique_values
    THEN [ret |-> Join(cached_unique_values[match], separator),
          cache |-> cached_unique_values, raised |-> None]
    ELSE [ret |-> << >>, cache |-> cached_unique_values,
          raised |-> "KeyError"]

\* A faulty hook that C32 must tell from the real one: a column the response
\* does not have stands for no values.
hook_absent_is_empty(match, separator, cached_unique_values, last_response) ==
    IF match \in DOMAIN cached_unique_values
    THEN [ret |-> Join(cached_unique_values[match], separator),
          cache |-> cached_unique_values, raised |-> None]
    ELSE IF match \in DOMAIN last_response
    THEN [ret |-> Join(unique(last_response[match], << >>), separator),
          cache |-> (match :> unique(last_response[match], << >>))
                    @@ cached_unique_values,
          raised |-> None]
    ELSE [ret |-> << >>, cache |-> cached_unique_values, raised |-> None]

\* hook of MultiRequestTask.run_request: the cached values of the matched
\* name, or the distinct values of that column of the last response, which
\* it caches; a KeyError for a column the response does not have.
hook(match, separator, cached_unique_values, last_response) ==
    IF match \in DOMAIN cached_unique_values
    THEN [ret |-> Join(cached_unique_values[match], separator),
          cache |-> cached_unique_values, raised |-> None]
    ELSE IF match \in DOMAIN last_response
    THEN [ret |-> Join(unique(last_response[match], << >>), separator),
          cache |-> (match :> unique(last_response[match], << >>))
                    @@ cached_unique_values,
          raised |-> None]
    ELSE [ret |-> << >>, cache |-> cached_unique_values,
          raised |-> "KeyError"]

\* The first position from j on where `>>` starts, 0 if there is none.
RECURSIVE FindClose(_, _)
FindClose(text, j) ==
    IF j + 1 > Len(text)
    THEN 0
    ELSE IF text[j] = ">" /\ text[j + 1] = ">"
    THEN j
    ELSE FindClose(text, j + 1)

\* pattern.sub(hook, text) for the pattern <<(.*?)>>, from position i on:
\* every leftmost shortest match is replaced by what hook returns for it,
\* and the replacement is not searched again.
RECURSIVE pattern_sub(_, _, _, _, _)
pattern_sub(st, text, i, separator, last_response) ==
    IF st.raised # None \/ i > Len(text)
    THEN st
    ELSE Bind(IF i + 1 <= Len(text) /\ text[i] = "<" /\ text[i + 1] = "<"
              THEN FindClose(text, i + 2) ELSE 0,
              LAMBDA j :
                 IF j = 0
                 THEN pattern_sub([st EXCEPT !.ret = Append(@, text[i])],
                                  text, i + 1, separator, last_response)
                 ELSE Bind(hook(SubSeq(text, i + 2, j - 1), separator,
                                st.cache, last_response),
                           LAMBDA h :
                              pattern_sub([ret |-> st.ret \o h.ret,
                                           cache |-> h.cache,
                                           raised |-> h.raised],
                                          text, j + 2, separator,
                                          last_response)))

----------------------------------------------------------------------------
\* Tasks.

\* A faulty stage set that C25 must tell from the real one: every task has
\* the three stages, whatever the Pipe is configured with.
AllThreeStages(wrangler, loader) == {"handle", "wrangle", "load"}

\* TaskOpsUtils.__init__: the stages a task has, in dict insertion order.
ConfiguredStages(wrangler, loader) ==
    {"handle"} \cup (IF wrangler.present THEN {"wrangle"} ELSE {})
               \cup (IF loader.present THEN {"load"} ELSE {})

\* Task.__init__ with SingleRequestTask.__init__ / MultiRequestTask.__init__:
\* every configured stage PENDING, status PENDING, no error, no data.
NewTask(name, type, requests, wrangler, loader) ==
    [name        |-> name,
     type        |-> type,
     requests    |-> requests,
     nreq        |-> Len(requests),
     cached_unique_values |-> << >>,
     op_statuses |-> [op \in ConfiguredStages(wrangler, loader) |-> "pending"],
     status      |-> "pending",
     error       |-> None,
     handle_data |-> << >>,
     data        |-> [handle |-> None, wrangle |-> None, load |-> None]]

\* A faulty update_status that C1 must tell from the real one: FAIL as soon
\* as one stage is FAIL.
update_status_any_fail(self) ==
    LET values == {self.op_statuses[op] : op \in DOMAIN self.op_statuses}
    IN  IF "fail" \in values
        THEN [self EXCEPT !.status = "fail"]
        ELSE IF Cardinality(values) = 1
        THEN [self EXCEPT !.status = CHOOSE v \in values : TRUE]
        ELSE [self EXCEPT !.status = "incomplete"]

\* Task.update_status: the common value of the stage statuses, or INCOMPLETE.
update_status(self) ==
    LET values == {self.op_statuses[op] : op \in DOMAIN self.op_statuses}
    IN  IF Cardinality(values) = 1
        THEN [self EXCEPT !.status = CHOOSE v \in values : TRUE]
        ELSE [self EXCEPT !.status = "incomplete"]

\* TaskOpsUtils._run_operation; `r` is what runner.run(passable, spec_ops)
\* did.  An exception of runner.run leaves the stage INCOMPLETE and the
\* error and status untouched.
run_operation(self, op, r, skip_status_update) ==
    LET begun == [self EXCEPT !.op_statuses = (op :> "incomplete") @@ @]
    IN  IF r.raised # None
        THEN [self |-> begun, raised |-> r.raised, status |-> None,
              response |-> None]
        ELSE LET status == IF r.error # None THEN "fail" ELSE "complete"
                 ended  == [begun EXCEPT !.error = r.error,
                                         !.op_statuses = (op :> status) @@ @]
             IN  [self     |-> IF skip_status_update THEN ended
                               ELSE update_status(ended),
                  raised   |-> None,
                  status   |-> status,
                  response |-> r.response]

\* The capability calls a wrapper's run made: none when it refused to run.
CallsOf(r, name) == IF r.called THEN <<name>> ELSE << >>

\* SingleRequestTask.run_request.
Single_run_request(self, handle, outcome, skip_status_update) ==
    LET rr == Handle_run(handle, outcome)
        r  == run_operation(self, "handle", rr, skip_status_update)
    IN  IF r.raised # None
        THEN [self |-> r.self, raised |-> r.raised, ret |-> None,
              statuses |-> << >>, calls |-> CallsOf(rr, "get_data"),
              passed |-> <<self.requests[1]>>]
        ELSE [self |-> [r.self EXCEPT !.data.handle = r.response],
              raised |-> None, ret |-> r.status,
              statuses |-> << >>, calls |-> CallsOf(rr, "get_data"),
              passed |-> <<self.requests[1]>>]

\* The responses get_data returns to a task whose requests hold
\* placeholders, by name.
Responses ==
    {"accounts 1, 1, 2", "accounts 1, 2, 3", "accounts <<region>>",
     "no accounts"}

AccountId == <<"account_id">>

\* json_normalize(response): the columns of the response as a table.
json_normalize(response) ==
    [is_none |-> FALSE,
     columns |->
        CASE response = "accounts 1, 1, 2" ->
                AccountId :> << <<"1">>, <<"1">>, <<"2">> >>
          [] response = "accounts 1, 2, 3" ->
                AccountId :> << <<"1">>, <<"2">>, <<"3">> >>
          [] response = "accounts <<region>>" ->
                AccountId :> << <<"<", "<", "region", ">", ">">> >>
          [] OTHER -> << >>]

\* `last_response = None`
NoLastResponse == [is_none |-> TRUE, columns |-> << >>]

\* The body of `if last_response is not None:` in run_request: the json
\* text of the request with every placeholder replaced by hook, loaded
\* again.
substitute_placeholders(self, request, last_response) ==
    Bind(pattern_sub([ret |-> << >>,
                      cache |-> self.cached_unique_values,
                      raised |-> None],
                     json_dumps(request), 1,
                     Get(request, SeparatorKey, DefaultSeparator),
                     last_response.columns),
         LAMBDA s :
            IF s.raised # None
            THEN [self |-> [self EXCEPT !.cached_unique_values = s.cache],
                  raised |-> s.raised, ret |-> request]
            ELSE Bind(json_loads(s.ret),
                      LAMBDA l :
                         [self |-> [self EXCEPT
                                      !.cached_unique_values = s.cache],
                          raised |-> l.raised, ret |-> l.ret]))

\* A faulty resolution that C30 must tell from the real one: it substitutes
\* in every request, the first included.
resolve_placeholders_always(self, request, last_response) ==
    substitute_placeholders(self, request, last_response)

\* The request MultiRequestTask.run_request passes on: the request itself
\* while there is no last response, the substituted request otherwise.
resolve_placeholders(self, request, last_response) ==
    IF last_response.is_none
    THEN [self |-> self, raised |-> None, ret |-> request]
    ELSE substitute_placeholders(self, request, last_response)

\* A faulty loop test that C16 must tell from the real one: the loop goes on
\* whatever the status.
NeverStops(status) == FALSE

\* `if status is not TaskStatus.COMPLETE: break`
StopsAfter(status) == status # "complete"

\* The loop of MultiRequestTask.run_request from request i on: resolve the
\* request, run it, append the response, record the status, stop unless
\* COMPLETE.  An exception of the resolution or of the run ends the call.
RECURSIVE Multi_requests_from(_, _, _, _, _)
Multi_requests_from(st, handle, outcomes, i, skip_status_update) ==
    IF i > Len(st.self.requests)
    THEN st
    ELSE Bind(resolve_placeholders(st.self, st.self.requests[i],
                                   st.last_response),
              LAMBDA q :
       IF q.raised # None
       THEN [st EXCEPT !.self = q.self, !.raised = q.raised]
       ELSE Bind(Handle_run(handle, outcomes[i]),
                 LAMBDA rr :
          Bind(run_operation(q.self, "handle", rr, skip_status_update),
               LAMBDA r :
             IF r.raised # None
             THEN [st EXCEPT !.self = r.self, !.raised = r.raised,
                             !.calls = @ \o CallsOf(rr, "get_data"),
                             !.passed = Append(@, q.ret)]
             ELSE IF StopsAfter(r.status)
             THEN [st EXCEPT
                     !.self = [r.self EXCEPT
                                 !.handle_data = Append(@, r.response)],
                     !.statuses = Append(@, r.status),
                     !.calls = @ \o CallsOf(rr, "get_data"),
                     !.passed = Append(@, q.ret)]
             ELSE Multi_requests_from(
                     [st EXCEPT
                        !.self = [r.self EXCEPT
                                    !.handle_data = Append(@, r.response)],
                        !.statuses = Append(@, r.status),
                        !.calls = @ \o CallsOf(rr, "get_data"),
                        !.passed = Append(@, q.ret),
                        !.last_response = json_normalize(r.response)],
                     handle, outcomes, i + 1, skip_status_update))))

\* MultiRequestTask.run_request: returns the per-request statuses.
Multi_run_request(self, handle, outcomes, skip_status_update) ==
    Multi_requests_from(
        [self |-> self, raised |-> None, ret |-> "dict", statuses |-> << >>,
         calls |-> << >>, passed |-> << >>,
         last_response |-> NoLastResponse],
        handle, outcomes, 1, skip_status_update)

\* run_request of either task class.
run_request(self, handle, outcomes, skip_status_update) ==
    IF self.type = "SingleRequestTask"
    THEN Single_run_request(self, handle, outcomes[1], skip_status_update)
    ELSE Multi_run_request(self, handle, outcomes, skip_status_update)

\* SingleRequestTask.run_wrangle / MultiRequestTask.run_wrangle.
run_wrangle(self, wrangler, outcome, skip_status_update) ==
    LET rr == Wrangler_run(wrangler, outcome)
        r  == run_operation(self, "wrangle", rr, skip_status_update)
    IN  IF r.raised # None
        THEN [self |-> r.self, raised |-> r.raised, ret |-> None,
              calls |-> CallsOf(rr, "wrangle")]
        ELSE [self |-> [r.self EXCEPT !.data.wrangle = r.response],
              raised |-> None, ret |-> r.status,
              calls |-> CallsOf(rr, "wrangle")]

\* SingleRequestTask.run_load / MultiRequestTask.run_load.
run_load(self, loader, outcome, skip_status_update) ==
    LET rr == Loader_run(loader, outcome)
        r  == run_operation(self, "load", rr, skip_status_update)
    IN  IF r.raised # None
        THEN [self |-> r.self, raised |-> r.raised, ret |-> None,
              calls |-> CallsOf(rr, "load")]
        ELSE [self |-> [r.self EXCEPT !.data.load = r.response],
              raised |-> None, ret |-> r.status,
              calls |-> CallsOf(rr, "load")]

\* One pass of the loop of Task.run, for stage `op`; `st` is the run so far.
\* The load branch reads op_statuses['wrangle'], a KeyError for a task that
\* has no wrangle stage.
Task_run_stage(st, op, handle, wrangler, loader, env) ==
    IF st.raised # None \/ op \notin DOMAIN st.self.op_statuses
    THEN st
    ELSE IF op = "handle"
    THEN LET r == run_request(st.self, handle, env.get_data, TRUE)
         IN  [self |-> r.self, raised |-> r.raised,
              statuses |-> IF r.raised # None THEN st.statuses
                           ELSE ("handle" :> r.ret) @@ st.statuses,
              request_statuses |-> r.statuses,
              passed |-> r.passed,
              calls |-> st.calls \o r.calls]
    ELSE IF op = "wrangle" /\ st.self.op_statuses["handle"] = "complete"
    THEN LET r == run_wrangle(st.self, wrangler, env.wrangle, TRUE)
         IN  [st EXCEPT !.self = r.self, !.raised = r.raised,
                        !.statuses = IF r.raised # None THEN @
                                     ELSE ("wrangle" :> r.ret) @@ @,
                        !.calls = @ \o r.calls]
    ELSE IF op = "load" /\ "wrangle" \notin DOMAIN st.self.op_statuses
    THEN [st EXCEPT !.raised = "KeyError"]
    ELSE IF op = "load" /\ st.self.op_statuses["wrangle"] = "complete"
    THEN LET r == run_load(st.self, loader, env.load, TRUE)
         IN  [st EXCEPT !.self = r.self, !.raised = r.raised,
                        !.statuses = IF r.raised # None THEN @
                                     ELSE ("load" :> r.ret) @@ @,
                        !.calls = @ \o r.calls]
    ELSE [st EXCEPT !.statuses = (op :> None) @@ @]

\* The loop of Task.run, `for op in self.op_statuses`, from the i-th stage on.
RECURSIVE Task_run_from(_, _, _, _, _, _)
Task_run_from(st, i, handle, wrangler, loader, env) ==
    IF i > Len(Stages)
    THEN st
    ELSE Task_run_from(
             Task_run_stage(st, Stages[i], handle, wrangler, loader, env),
             i + 1, handle, wrangler, loader, env)

\* The run before its first stage: `statuses = {}`.
Task_run_start(self) ==
    [self |-> self, raised |-> None, statuses |-> [op \in {} |-> None],
     request_statuses |-> << >>, passed |-> << >>, calls |-> << >>]

\* A faulty Task.run that C3 must tell from the real one: it returns without
\* the final update_status.
Task_run_stale(self, handle, wrangler, loader, env) ==
    Task_run_from(Task_run_start(self), 1, handle, wrangler, loader, env)

\* Task.run: the stages in op_statuses order, then update_status; returns the
\* statuses of the stages of this run (None for a stage it did not run).
Task_run(self, handle, wrangler, loader, env) ==
    LET r == Task_run_from(Task_run_start(self), 1, handle, wrangler, loader,
                           env)
    IN  IF r.raised # None
        THEN r
        ELSE [r EXCEPT !.self = update_status(r.self)]

----------------------------------------------------------------------------
\* Pipe.

\* TaskManagementUtils.task_obj_from_dict: the task class by the definition's
\* `request` or `requests` field, sharing the Pipe's wrappers.
task_obj_from_dict(task, wrangler, loader) ==
    NewTask(task.name, task.type, task.requests, wrangler, loader)

\* `{task.name: task for task in task_objs}`: a name that comes again keeps
\* its place in the dict and gets the later task.
RECURSIVE TaskMap(_, _)
TaskMap(task_objs, task_map) ==
    IF task_objs = << >>
    THEN task_map
    ELSE TaskMap(Tail(task_objs),
                 IF \E n \in DOMAIN task_map :
                        task_map[n].name = Head(task_objs).name
                 THEN [n \in DOMAIN task_map |->
                         IF task_map[n].name = Head(task_objs).name
                         THEN Head(task_objs) ELSE task_map[n]]
                 ELSE Append(task_map, Head(task_objs)))

\* TaskManagementUtils.read_tasks: the definitions of the tasks file, a
\* ValueError if two of them have the same name.
read_tasks(tasks) ==
    IF Cardinality({tasks[i].name : i \in DOMAIN tasks}) # Len(tasks)
    THEN [raised |-> "ValueError", ret |-> << >>]
    ELSE [raised |-> None, ret |-> tasks]

\* Pipe.__init__ with TaskManagementUtils.__init__: IDLE, fresh wrappers that
\* catch runtime errors, a task per definition, the failed guard unset.
NewPipe(hasWrangler, hasLoader, tasks) ==
    LET wrangler == IF hasWrangler THEN NewOperator(TRUE) ELSE NoOperator
        loader   == IF hasLoader THEN NewOperator(TRUE) ELSE NoOperator
    IN  [status            |-> "idle",
         secret_id         |-> None,
         pipe_failed       |-> FALSE,
         handle            |-> NewOperator(TRUE),
         wrangler          |-> wrangler,
         loader            |-> loader,
         operator_statuses |-> [handle |-> None, wrangler |-> None,
                                loader |-> None],
         task_map          |->
            TaskMap([t \in DOMAIN tasks |->
                       task_obj_from_dict(tasks[t], wrangler, loader)],
                    << >>)]

\* Pipe.__init__ as called: the definitions come as the `tasks` argument or,
\* when `given` is "tasks_file_path", from read_tasks.
Pipe_init(hasWrangler, hasLoader, tasks, given) ==
    IF given = "tasks"
    THEN [raised |-> None, self |-> <<NewPipe(hasWrangler, hasLoader, tasks)>>]
    ELSE Bind(read_tasks(tasks),
              LAMBDA r :
                 IF r.raised # None
                 THEN [raised |-> r.raised, self |-> << >>]
                 ELSE [raised |-> None,
                       self |-> <<NewPipe(hasWrangler, hasLoader, r.ret)>>])

\* The keys of the dict TaskManagementUtils.get_task_status_counts builds.
StatusCountKeys == {"pending", "incomplete", "complete", "failed"}

\* TaskManagementUtils.get_task_status_counts: `statuses[task.status] += 1`
\* for each task, a KeyError for a status that is no key of the dict.
get_task_status_counts(self) ==
    IF \E t \in DOMAIN self.task_map :
            self.task_map[t].status \notin StatusCountKeys
    THEN [raised |-> "KeyError", ret |-> [k \in StatusCountKeys |-> 0]]
    ELSE [raised |-> None,
          ret |-> [k \in StatusCountKeys |->
                     Cardinality({t \in DOMAIN self.task_map :
                                     self.task_map[t].status = k})]]

\* Pipe.update_status.
Pipe_update_status(self) ==
    LET status_counts == get_task_status_counts(self)
        n == Len(self.task_map)
    IN  IF status_counts.raised # None
        THEN [self |-> self, raised |-> status_counts.raised, ret |-> None]
        ELSE IF status_counts.ret["pending"] = n
        THEN [self |-> self, raised |-> None, ret |-> self.status]
        ELSE IF status_counts.ret["complete"] = n
        THEN [self |-> [self EXCEPT !.status = "complete"], raised |-> None,
              ret |-> "complete"]
        ELSE [self |-> [self EXCEPT !.status = "incomplete"], raised |-> None,
              ret |-> "incomplete"]

\* A faulty Pipe.initialize_handle that C23 must tell from the real one: a
\* Handle that fails to initialize arms the failed guard.
Pipe_initialize_handle_arms_guard(self, outcome) ==
    LET r == Handle_initialize(self.handle, outcome)
        p == [self EXCEPT !.handle = r.self]
    IN  IF r.raised # None
        THEN [self |-> [p EXCEPT !.pipe_failed = TRUE], raised |-> r.raised,
              ret |-> None, calls |-> <<"Handle">>]
        ELSE [self |-> [p EXCEPT !.operator_statuses.handle = r.ret,
                                 !.status = IF r.ret = "fail" THEN "fail"
                                            ELSE @],
              raised |-> None, ret |-> r.ret, calls |-> <<"Handle">>]

\* Pipe.initialize_handle.
Pipe_initialize_handle(self, outcome) ==
    LET r == Handle_initialize(self.handle, outcome)
        p == [self EXCEPT !.handle = r.self]
    IN  IF r.raised # None
        THEN [self |-> p, raised |-> r.raised, ret |-> None,
              calls |-> <<"Handle">>]
        ELSE [self |-> [p EXCEPT !.operator_statuses.handle = r.ret,
                                 !.status = IF r.ret = "fail" THEN "fail"
                                            ELSE @],
              raised |-> None, ret |-> r.ret, calls |-> <<"Handle">>]

\* Pipe.initialize_wrangler.
Pipe_initialize_wrangler(self, outcome) ==
    IF self.wrangler.present
    THEN LET r == Wrangler_initialize(self.wrangler, outcome)
             p == [self EXCEPT !.wrangler = r.self]
         IN  IF r.raised # None
             THEN [self |-> p, raised |-> r.raised, ret |-> None,
                   calls |-> <<"Wrangler">>]
             ELSE [self |-> [p EXCEPT !.operator_statuses.wrangler = r.ret],
                   raised |-> None, ret |-> r.ret, calls |-> <<"Wrangler">>]
    ELSE [self |-> self, raised |-> None, ret |-> None, calls |-> << >>]

\* Pipe.initialize_loader (it stores the status under the key 'wrangler').
Pipe_initialize_loader(self, outcome) ==
    IF self.loader.present
    THEN LET r == Loader_initialize(self.loader, outcome)
             p == [self EXCEPT !.loader = r.self]
         IN  IF r.raised # None
             THEN [self |-> p, raised |-> r.raised, ret |-> None,
                   calls |-> <<"Loader">>]
             ELSE [self |-> [p EXCEPT !.operator_statuses.wrangler = r.ret],
                   raised |-> None, ret |-> r.ret, calls |-> <<"Loader">>]
    ELSE [self |-> self, raised |-> None, ret |-> None, calls |-> << >>]

\* A faulty Pipe.initialize that C10 must tell from the real one: it tests
\* for READY where the source tests for IDLE.
Pipe_initialize_tests_ready(self, env) ==
    LET h == Pipe_initialize_handle(self, env.handle)
        w == Pipe_initialize_wrangler(h.self, env.wrangler)
        l == Pipe_initialize_loader(w.self, env.loader)
    IN  IF h.raised # None
        THEN [self |-> h.self, raised |-> h.raised, calls |-> h.calls]
        ELSE IF w.raised # None
        THEN [self |-> w.self, raised |-> w.raised,
              calls |-> h.calls \o w.calls]
        ELSE IF l.raised # None
        THEN [self |-> l.self, raised |-> l.raised,
              calls |-> h.calls \o w.calls \o l.calls]
        ELSE [self |-> IF l.self.status = "ready" /\ h.ret = "initialized"
                       THEN [l.self EXCEPT !.status = "ready"]
                       ELSE l.self,
              raised |-> None,
              calls |-> h.calls \o w.calls \o l.calls]

\* Pipe.initialize: Handle, Wrangler, Loader; READY if the Pipe is IDLE and
\* the Handle is INITIALIZED.  `env` gives the outcome of each constructor.
Pipe_initialize(self, env) ==
    LET h == Pipe_initialize_handle(self, env.handle)
        w == Pipe_initialize_wrangler(h.self, env.wrangler)
        l == Pipe_initialize_loader(w.self, env.loader)
    IN  IF h.raised # None
        THEN [self |-> h.self, raised |-> h.raised, calls |-> h.calls]
        ELSE IF w.raised # None
        THEN [self |-> w.self, raised |-> w.raised,
              calls |-> h.calls \o w.calls]
        ELSE IF l.raised # None
        THEN [self |-> l.self, raised |-> l.raised,
              calls |-> h.calls \o w.calls \o l.calls]
        ELSE [self |-> IF l.self.status = "idle" /\ h.ret = "initialized"
                       THEN [l.self EXCEPT !.status = "ready"]
                       ELSE l.self,
              raised |-> None,
              calls |-> h.calls \o w.calls \o l.calls]

\* A faulty run_task that C36 must tell from the real one: it recomputes the
\* Pipe status behind the task's run, as Pipe.run does behind its loop.
Pipe_run_task_updates_status(self, t, env) ==
    Bind(Task_run(self.task_map[t], self.handle, self.wrangler, self.loader,
                  env),
         LAMBDA r :
            [self |-> Pipe_update_status(
                          [self EXCEPT !.task_map[t] = r.self]).self,
             raised |-> r.raised,
             statuses |-> r.statuses,
             request_statuses |-> r.request_statuses,
             passed |-> r.passed,
             calls |-> [i \in DOMAIN r.calls |->
                          [task |-> t, call |-> r.calls[i]]]])

\* TaskManagementUtils.run_task: run the named task of the Pipe.
Pipe_run_task(self, t, env) ==
    Bind(Task_run(self.task_map[t], self.handle, self.wrangler, self.loader,
                  env),
         LAMBDA r :
            [self |-> [self EXCEPT !.task_map[t] = r.self],
             raised |-> r.raised,
             statuses |-> r.statuses,
             request_statuses |-> r.request_statuses,
             passed |-> r.passed,
             calls |-> [i \in DOMAIN r.calls |->
                          [task |-> t, call |-> r.calls[i]]]])

\* The loop of Pipe.run from task t on; an exception of a task's run ends it.
RECURSIVE Pipe_run_from(_, _, _)
Pipe_run_from(st, t, envs) ==
    IF t > Len(st.self.task_map)
    THEN st
    ELSE Bind(Pipe_run_task(st.self, t, envs[t]),
              LAMBDA r :
                 IF r.raised # None
                 THEN [self |-> r.self, raised |-> r.raised,
                       calls |-> st.calls \o r.calls,
                       ran |-> Append(st.ran, t)]
                 ELSE Pipe_run_from([self |-> r.self, raised |-> None,
                                     calls |-> st.calls \o r.calls,
                                     ran |-> Append(st.ran, t)],
                                    t + 1, envs))

\* Pipe.run: every task in task_map order, then update_status.
Pipe_run(self, envs) ==
    Bind(Pipe_run_from([self |-> self, raised |-> None, calls |-> << >>,
                        ran |-> << >>], 1, envs),
         LAMBDA r :
            IF r.raised # None
            THEN [self |-> r.self, raised |-> r.raised, calls |-> r.calls,
                  ran |-> r.ran, ret |-> None]
            ELSE Bind(Pipe_update_status(r.self),
                      LAMBDA u :
                         [self |-> u.self, raised |-> u.raised,
                          calls |-> r.calls, ran |-> r.ran, ret |-> u.ret]))

----------------------------------------------------------------------------
\* Pipeline.  `ps` is Pipeline.pipes in the order of the dict; the log of a
\* call lists what it called on which Pipe, with the argument.

LogEntry(p, call, arg) == [pipe |-> p, call |-> call, arg |-> arg]

\* The credential manager of the host: the credentials kept under a secret id.
credential_manager(secret_id) == <<"credentials of", secret_id>>

\* Pipeline._check_pipe_not_failed.
PipelineFailed == "Exception: Pipeline failed earlier"

check_pipe_not_failed(pipe) ==
    IF pipe.pipe_failed THEN PipelineFailed ELSE None

\* Pipeline.initialize_pipe: env.credentials is what the credential manager
\* does, env.initialize what the constructors of the operators do.
Pipeline_initialize_pipe(ps, p, env) ==
    LET asked == LogEntry(p, "credential_manager", <<ps[p].secret_id>>)
    IN  IF env.credentials = "raise"
        THEN [pipes |-> ps, raised |-> "Exception", log |-> <<asked>>]
        ELSE Bind(Pipe_initialize(ps[p], env.initialize),
                  LAMBDA r :
                     [pipes |-> [ps EXCEPT ![p] = r.self],
                      raised |-> r.raised,
                      log |-> <<asked,
                                LogEntry(p, "Pipe.initialize",
                                    credential_manager(ps[p].secret_id))>>])

\* A faulty Pipeline.initialize_pipes that C28 must tell from the real one:
\* it goes on with the next Pipe after an exception.
RECURSIVE Pipeline_initialize_pipes_goes_on(_, _, _)
Pipeline_initialize_pipes_goes_on(st, pipe_names, envs) ==
    IF pipe_names = << >>
    THEN st
    ELSE Bind(Pipeline_initialize_pipe(st.pipes, Head(pipe_names),
                                       envs[Head(pipe_names)]),
              LAMBDA r :
                 Pipeline_initialize_pipes_goes_on(
                     [pipes |-> r.pipes,
                      raised |-> IF st.raised # None THEN st.raised
                                 ELSE r.raised,
                      at |-> IF st.raised # None THEN st.at
                             ELSE IF r.raised # None THEN Head(pipe_names)
                             ELSE 0,
                      log |-> st.log \o r.log],
                     Tail(pipe_names), envs))

\* Pipeline.initialize_pipes: the loop over pipe_names; an exception ends it,
\* `at` is the Pipe whose initialize_pipe raised it.
RECURSIVE Pipeline_initialize_pipes(_, _, _)
Pipeline_initialize_pipes(st, pipe_names, envs) ==
    IF pipe_names = << >>
    THEN st
    ELSE Bind(Pipeline_initialize_pipe(st.pipes, Head(pipe_names),
                                       envs[Head(pipe_names)]),
              LAMBDA r :
                 IF r.raised # None
                 THEN [pipes |-> r.pipes, raised |-> r.raised,
                       at |-> Head(pipe_names), log |-> st.log \o r.log]
                 ELSE Pipeline_initialize_pipes(
                          [pipes |-> r.pipes, raised |-> None, at |-> 0,
                           log |-> st.log \o r.log],
                          Tail(pipe_names), envs))

\* Pipeline.initialize: initialize_pipes(self.pipes.keys()).
Pipeline_initialize(ps, envs) ==
    Pipeline_initialize_pipes([pipes |-> ps, raised |-> None, at |-> 0,
                               log |-> << >>],
                              [p \in DOMAIN ps |-> p], envs)

\* Pipeline.run_pipe.
Pipeline_run_pipe(ps, p, envs) ==
    LET checked == LogEntry(p, "_check_pipe_not_failed", << >>)
    IN  IF check_pipe_not_failed(ps[p]) # None
        THEN [pipes |-> ps, raised |-> check_pipe_not_failed(ps[p]),
              log |-> <<checked>>, calls |-> << >>]
        ELSE Bind(Pipe_run(ps[p], envs),
                  LAMBDA r :
                     [pipes |-> [ps EXCEPT ![p] = r.self],
                      raised |-> r.raised,
                      log |-> <<checked, LogEntry(p, "Pipe.run", << >>)>>,
                      calls |-> r.calls])

\* The loop of Pipeline.run from Pipe p on.
RECURSIVE Pipeline_run_from(_, _, _)
Pipeline_run_from(st, p, envs) ==
    IF p > Len(st.pipes)
    THEN st
    ELSE Bind(Pipeline_run_pipe(st.pipes, p, envs[p]),
              LAMBDA r :
                 IF r.raised # None
                 THEN [pipes |-> r.pipes, raised |-> r.raised,
                       log |-> st.log \o r.log]
                 ELSE Pipeline_run_from(
                          [pipes |-> r.pipes, raised |-> None,
                           log |-> st.log \o r.log],
                          p + 1, envs))

\* Pipeline.run: for every Pipe the guard, then Pipe.run.
Pipeline_run(ps, envs) ==
    Pipeline_run_from([pipes |-> ps, raised |-> None, log |-> << >>], 1, envs)

\* Pipeline.run_task: its first statement reads the name `pipe`, which is
\* neither a local nor a global of the module.
Pipeline_run_task(ps, p, t) ==
    [pipes |-> ps, raised |-> "NameError", log |-> << >>]

----------------------------------------------------------------------------
\* What the environment can do during a call.  Only the outcomes of calls
\* that can be made are drawn: a wrapper that is not INITIALIZED never calls
\* its capability, and Task.run reaches wrangle only after a COMPLETE handle
\* stage.

\* The outcomes of the get_data calls of one run: every request succeeds
\* (k = 0) or request k is the first to raise.  Later outcomes are never
\* read, since the loop stops at the first request that is not COMPLETE.
FirstFailure(k) == [i \in 1..MaxRequests |-> IF i = k THEN "raise" ELSE "ok"]

\* The outcomes a call through wrapper `operator` can have.
OutcomesOf(operator) ==
    IF operator.present /\ operator.status = "initialized"
    THEN Outcomes ELSE {"ok"}

\* The text holds a placeholder: `<<`, and `>>` somewhere behind it.
HasPlaceholder(text) ==
    \E i \in 1..Len(text) :
        /\ i + 1 <= Len(text) /\ text[i] = "<" /\ text[i + 1] = "<"
        /\ FindClose(text, i + 2) # 0

\* A request of the task holds a placeholder.
HasPlaceholders(task) ==
    \E i \in DOMAIN task.requests : HasPlaceholder(json_dumps(task.requests[i]))

\* The outcomes of the get_data calls of one run_request.  What a response
\* holds matters only to a task with placeholders: for it every request
\* that is reached raises or returns one of Responses.
GetDataOutcomes(task, pipe) ==
    IF pipe.handle.status # "initialized"
    THEN {FirstFailure(0)}
    ELSE IF ~HasPlaceholders(task)
    THEN {FirstFailure(k) : k \in 0..task.nreq}
    ELSE {g \in [1..MaxRequests -> {"ok", "raise"} \cup Responses] :
            \A i \in 1..MaxRequests :
                IF i <= task.nreq /\ \A j \in 1..(i - 1) : g[j] # "raise"
                THEN g[i] # "ok"
                ELSE g[i] = "ok"}

\* The outcomes of the capability calls of one Task.run.
TaskEnvs(task, pipe) ==
    UNION {{[get_data |-> g, wrangle |-> w, load |-> l] :
                w \in IF \A i \in DOMAIN g : g[i] # "raise"
                      THEN OutcomesOf(pipe.wrangler) ELSE {"ok"},
                l \in IF pipe.wrangler.present THEN OutcomesOf(pipe.loader)
                      ELSE {"ok"}} :
           g \in GetDataOutcomes(task, pipe)}

\* One TaskEnvs element for each task of the Pipe from task t on.
RECURSIVE PipeEnvsFrom(_, _)
PipeEnvsFrom(pipe, t) ==
    IF t > Len(pipe.task_map)
    THEN {<< >>}
    ELSE {<<e>> \o rest : e \in TaskEnvs(pipe.task_map[t], pipe),
                          rest \in PipeEnvsFrom(pipe, t + 1)}

\* The outcomes of the constructors during one Pipe.initialize: a
\* constructor that raises ends the call, so no later one is drawn.
InitializeEnvs(pipe) ==
    UNION {UNION {{[handle |-> h, wrangler |-> w, loader |-> l] :
                      l \in IF pipe.loader.present /\ h = "ok" /\ w = "ok"
                            THEN Outcomes ELSE {"ok"}} :
                  w \in IF pipe.wrangler.present /\ h = "ok"
                        THEN Outcomes ELSE {"ok"}} :
           h \in Outcomes}

\* A MultiRequestTask appends to data['handle'] on every run; a run is
\* modelled only while the list stays within MaxHandleData.
WithinData(task) ==
    task.type = "MultiRequestTask" =>
        Len(task.handle_data) + task.nreq <= MaxHandleData

----------------------------------------------------------------------------
\* The task definitions a Pipe is built from.

\* A request without placeholders.
PlainRequest == <<[key |-> <<"report">>, value |-> <<"accounts">>]>>

TaskDefs ==
    {[type |-> "SingleRequestTask", requests |-> <<PlainRequest>>]} \cup
    {[type |-> "MultiRequestTask",
      requests |-> [i \in 1..n |-> PlainRequest]] : n \in 1..MaxRequests}

\* The definitions with the names 1, 2, ... in their order.
Named(tasks) ==
    [i \in DOMAIN tasks |->
        [name |-> i, type |-> tasks[i].type, requests |-> tasks[i].requests]]

\* A request with the placeholder <<account_id>>, and with a %separator%
\* field unless `separator` is empty.
PlaceholderRequest(separator) ==
    <<[key |-> <<"ids">>, value |-> <<"<", "<">> \o AccountId \o <<">", ">">>]>>
    \o (IF separator = << >> THEN << >>
        ELSE <<[key |-> SeparatorKey, value |-> separator]>>)

Separators == {<< >>, <<"|">>, <<Tab>>}

\* MultiRequestTask definitions: a first request with or without a
\* placeholder, then requests that take the account ids of the response
\* before them.
MultiDefs ==
    {[type |-> "MultiRequestTask",
      requests |-> <<first>> \o rest] :
        first \in {PlainRequest, PlaceholderRequest(<< >>)},
        rest \in UNION {[1..n -> {PlaceholderRequest(separator) :
                                     separator \in Separators}] :
                        n \in 1..(MaxRequests - 1)}}

\* The definitions of the tasks of a Pipe that is initialized and run as a
\* whole: single-request tasks (SpecTask runs tasks of either class).
PipeTaskDefs == {def \in TaskDefs : def.type = "SingleRequestTask"}

NoStatuses == [op \in {} |-> None]

\* The observation before any call.
NoCall ==
    [op |-> "none", pipe |-> 0, task |-> 0, raised |-> None, ret |-> None,
     before |-> "idle", statuses |-> NoStatuses, request_statuses |-> << >>,
     calls |-> << >>, ran |-> << >>,
     wrapper |-> None, was |-> None, was_error |-> None, outcome |-> None,
     response |-> None, error |-> None,
     passed |-> << >>, cache_before |-> << >>,
     status_before |-> None, given |-> None, log |-> << >>, guards |-> << >>,
     pc |-> "idle",
     data_before |-> [handle |-> None, wrangle |-> None, load |-> None]]

\* A Pipeline of one Pipe, built by Pipe.__init__ from NumTasks definitions.
Init ==
    /\ \E hasWrangler \in BOOLEAN, hasLoader \in BOOLEAN,
          tasks \in [1..NumTasks -> PipeTaskDefs] :
            pipes = <<NewPipe(hasWrangler, hasLoader, Named(tasks))>>
    /\ last = NoCall

\* The wrappers of a Pipe as a host can hand them to a task it runs itself:
\* each built with the same catch_runtime_errors flag, and either all still
\* UNINITIALIZED or all INITIALIZED by a successful initialize.
WithOperators(pipe, catch, initialized) ==
    LET set(o) == IF o.present
                  THEN [o EXCEPT !.catch_runtime_errors = catch,
                                 !.status = IF initialized THEN "initialized"
                                            ELSE @]
                  ELSE o
    IN  [pipe EXCEPT !.handle = set(@), !.wrangler = set(@), !.loader = set(@)]

\* One task of either class with its wrappers, before its first run.
InitTask ==
    /\ \E hasWrangler \in BOOLEAN, hasLoader \in BOOLEAN, def \in TaskDefs,
          catch \in BOOLEAN, initialized \in BOOLEAN :
            pipes = <<WithOperators(
                         NewPipe(hasWrangler, hasLoader, Named(<<def>>)),
                         catch, initialized)>>
    /\ last = NoCall

----------------------------------------------------------------------------
\* Actions: one public method each.

Observe(op, p, t, before) ==
    [NoCall EXCEPT !.op = op, !.pipe = p, !.task = t, !.before = before]

\* pipe.initialize(credentials_obj)
Initialize(p) ==
    \E env \in InitializeEnvs(pipes[p]) :
        \E r \in {Pipe_initialize(pipes[p], env)} :
            /\ pipes' = [pipes EXCEPT ![p] = r.self]
            /\ last' = [Observe("Pipe.initialize", p, 0, pipes[p].status)
                          EXCEPT !.raised = r.raised,
                                 !.calls = [i \in DOMAIN r.calls |->
                                     [task |-> 0, call |-> r.calls[i]]]]

\* pipe.run()
Run(p) ==
    /\ \A t \in DOMAIN pipes[p].task_map : WithinData(pipes[p].task_map[t])
    /\ \E envs \in PipeEnvsFrom(pipes[p], 1) :
        \E r \in {Pipe_run(pipes[p], envs)} :
            /\ pipes' = [pipes EXCEPT ![p] = r.self]
            /\ last' = [Observe("Pipe.run", p, 0, pipes[p].status)
                          EXCEPT !.raised = r.raised, !.ret = r.ret,
                                 !.calls = r.calls, !.ran = r.ran]

\* pipe.run_task(task_name), that is task.run()
RunTask(p, t) ==
    /\ WithinData(pipes[p].task_map[t])
    /\ \E env \in TaskEnvs(pipes[p].task_map[t], pipes[p]) :
        \E r \in {Pipe_run_task(pipes[p], t, env)} :
            /\ pipes' = [pipes EXCEPT ![p] = r.self]
            /\ last' = [Observe("Task.run", p, t, pipes[p].status)
                          EXCEPT !.raised = r.raised,
                                 !.statuses = r.statuses,
                                 !.request_statuses = r.request_statuses,
                                 !.passed = r.passed,
                                 !.cache_before =
                                    pipes[p].task_map[t].cached_unique_values,
                                 !.status_before = pipes[p].task_map[t].status,
                                 !.data_before = pipes[p].task_map[t].data,
                                 !.calls = r.calls, !.ran = <<t>>]

\* A stage method of a task called by the host: `r` is what it did.
StageCall(op, p, t, r) ==
    /\ pipes' = [pipes EXCEPT ![p].task_map[t] = r.self]
    /\ last' = [Observe(op, p, t, pipes[p].status)
                  EXCEPT !.raised = r.raised, !.ret = r.ret,
                         !.request_statuses =
                            IF "statuses" \in DOMAIN r THEN r.statuses
                            ELSE << >>,
                         !.passed =
                            IF "passed" \in DOMAIN r THEN r.passed ELSE << >>,
                         !.cache_before =
                            pipes[p].task_map[t].cached_unique_values,
                         !.status_before = pipes[p].task_map[t].status,
                         !.data_before = pipes[p].task_map[t].data,
                         !.calls = [i \in DOMAIN r.calls |->
                                      [task |-> t, call |-> r.calls[i]]]]

\* task.run_request(spec_ops)
RunRequest(p, t) ==
    /\ WithinData(pipes[p].task_map[t])
    /\ \E env \in TaskEnvs(pipes[p].task_map[t], pipes[p]) :
        /\ env.wrangle = "ok" /\ env.load = "ok"
        /\ \E r \in {run_request(pipes[p].task_map[t], pipes[p].handle,
                                 env.get_data, FALSE)} :
              StageCall("run_request", p, t, r)

\* task.run_wrangle(spec_ops), for a task that has a Wrangler
RunWrangle(p, t) ==
    /\ pipes[p].wrangler.present
    /\ \E outcome \in OutcomesOf(pipes[p].wrangler) :
        \E r \in {run_wrangle(pipes[p].task_map[t], pipes[p].wrangler,
                              outcome, FALSE)} :
            StageCall("run_wrangle", p, t, r)

\* task.run_load(spec_ops), for a task that has a Loader
RunLoad(p, t) ==
    /\ pipes[p].loader.present
    /\ \E outcome \in OutcomesOf(pipes[p].loader) :
        \E r \in {run_load(pipes[p].task_map[t], pipes[p].loader,
                           outcome, FALSE)} :
            StageCall("run_load", p, t, r)

\* initialize of the wrapper `name` of a Pipe, by name.
Operator_initialize(name, self, outcome) ==
    CASE name = "handle"   -> Handle_initialize(self, outcome)
      [] name = "wrangler" -> Wrangler_initialize(self, outcome)
      [] name = "loader"   -> Loader_initialize(self, outcome)

\* run of the wrapper `name` of a Pipe, by name.
Operator_run(name, self, outcome) ==
    CASE name = "handle"   -> Handle_run(self, outcome)
      [] name = "wrangler" -> Wrangler_run(self, outcome)
      [] name = "loader"   -> Loader_run(self, outcome)

OperatorNames == {"handle", "wrangler", "loader"}

\* pipe.handle.initialize(credentials), and the same on wrangler and loader
OperatorInitialize(p, name) ==
    \E outcome \in Outcomes :
        \E r \in {Operator_initialize(name, pipes[p][name], outcome)} :
            /\ pipes' = [pipes EXCEPT ![p][name] = r.self]
            /\ last' = [Observe("initialize", p, 0, pipes[p].status)
                          EXCEPT !.wrapper = name,
                                 !.was = pipes[p][name].status,
                                 !.was_error = pipes[p][name].initialize_error,
                                 !.outcome = outcome,
                                 !.raised = r.raised, !.ret = r.ret]

\* pipe.handle.run(request), and the same on wrangler and loader; the
\* capability is called only by a wrapper that is INITIALIZED.
OperatorRun(p, name) ==
    \E outcome \in IF pipes[p][name].status = "initialized"
                   THEN RunOutcomes ELSE {"ok"} :
        \E r \in {Operator_run(name, pipes[p][name], outcome)} :
            /\ pipes' = pipes
            /\ last' = [Observe("run", p, 0, pipes[p].status)
                          EXCEPT !.wrapper = name,
                                 !.was = pipes[p][name].status,
                                 !.was_error = pipes[p][name].initialize_error,
                                 !.outcome = outcome,
                                 !.raised = r.raised,
                                 !.response = r.response,
                                 !.error = r.error,
                                 !.calls = IF r.called
                                           THEN <<[task |-> 0, call |-> name]>>
                                           ELSE << >>]

\* A Pipe: initialize and run.
Next ==
    \E p \in DOMAIN pipes :
        \/ Initialize(p)
        \/ Run(p)

Spec == Init /\ [][Next]_vars

\* The three wrappers on their own, with or without catch_runtime_errors.
InitOperator ==
    /\ \E catch \in BOOLEAN :
          pipes = <<WithOperators(NewPipe(TRUE, TRUE, << >>), catch, FALSE)>>
    /\ last = NoCall

NextOperator ==
    \E p \in DOMAIN pipes : \E name \in OperatorNames :
        \/ OperatorInitialize(p, name)
        \/ OperatorRun(p, name)

SpecOperator == InitOperator /\ [][NextOperator]_vars

\* Pipe(api_handle, tasks=...) or Pipe(api_handle, tasks_file_path=...) by
\* the host, with task names of its choosing; `ran` keeps the names given.
Construct ==
    /\ pipes = << >>
    /\ \E hasWrangler \in BOOLEAN, hasLoader \in BOOLEAN,
          given \in {"tasks", "tasks_file_path"},
          names \in [1..NumTasks -> 1..NumTasks],
          tasks \in [1..NumTasks -> TaskDefs] :
        \E r \in {Pipe_init(hasWrangler, hasLoader,
                             [i \in 1..NumTasks |->
                                [name |-> names[i], type |-> tasks[i].type,
                                 requests |-> tasks[i].requests]],
                             given)} :
            /\ pipes' = r.self
            /\ last' = [Observe("Pipe.__init__", Len(r.self), 0, "idle")
                          EXCEPT !.raised = r.raised, !.given = given,
                                 !.ran = names]

\* pipeline.initialize()
PipelineInitialize ==
    \E envs \in [DOMAIN pipes -> [credentials : Outcomes,
                                  initialize : [handle : Outcomes,
                                                wrangler : Outcomes,
                                                loader : Outcomes]]] :
        /\ \A p \in DOMAIN pipes :
              envs[p].initialize \in InitializeEnvs(pipes[p])
        /\ \E r \in {Pipeline_initialize(pipes, envs)} :
            /\ pipes' = r.pipes
            /\ last' = [Observe("Pipeline.initialize", r.at, 0, "idle")
                          EXCEPT !.raised = r.raised, !.log = r.log]

\* The guards of the Pipes.
Guards == [p \in DOMAIN pipes |-> pipes[p].pipe_failed]

\* pipeline.run()
PipelineRun ==
    \E envs \in [DOMAIN pipes -> UNION {PipeEnvsFrom(pipes[p], 1) :
                                          p \in DOMAIN pipes}] :
        /\ \A p \in DOMAIN pipes : envs[p] \in PipeEnvsFrom(pipes[p], 1)
        /\ \E r \in {Pipeline_run(pipes, envs)} :
            /\ pipes' = r.pipes
            /\ last' = [Observe("Pipeline.run", 0, 0, "idle")
                          EXCEPT !.raised = r.raised, !.log = r.log,
                                 !.guards = Guards]

\* pipeline.run_pipe(pipe_name)
PipelineRunPipe(p) ==
    \E envs \in PipeEnvsFrom(pipes[p], 1) :
        \E r \in {Pipeline_run_pipe(pipes, p, envs)} :
            /\ pipes' = r.pipes
            /\ last' = [Observe("Pipeline.run_pipe", p, 0, pipes[p].status)
                          EXCEPT !.raised = r.raised, !.log = r.log,
                                 !.calls = r.calls, !.guards = Guards]

\* pipeline.run_task(pipe_name, task_name)
PipelineRunTask(p, t) ==
    \E r \in {Pipeline_run_task(pipes, p, t)} :
        /\ pipes' = r.pipes
        /\ last' = [Observe("Pipeline.run_task", p, t, pipes[p].status)
                      EXCEPT !.raised = r.raised, !.log = r.log,
                             !.guards = Guards]

\* Pipeline.__init__ over NumPipes Pipes as constructed, each with a Handle,
\* one task and its own secret id.
SecretId(p) == IF p = 1 THEN "secret 1" ELSE "secret 2"

InitPipeline ==
    /\ \E def \in [1..NumPipes -> PipeTaskDefs] :
            pipes = [p \in 1..NumPipes |->
                       [NewPipe(FALSE, FALSE, Named(<<def[p]>>))
                          EXCEPT !.secret_id = SecretId(p)]]
    /\ last = NoCall

NextPipeline ==
    \/ PipelineInitialize
    \/ PipelineRun
    \/ \E p \in DOMAIN pipes : PipelineRunPipe(p)
    \/ \E p \in DOMAIN pipes : \E t \in DOMAIN pipes[p].task_map :
          PipelineRunTask(p, t)

SpecPipeline == InitPipeline /\ [][NextPipeline]_vars

\* A Pipe after an initialize() in which every constructor succeeded.
InitReady ==
    /\ \E hasWrangler \in BOOLEAN, hasLoader \in BOOLEAN,
          tasks \in [1..NumTasks -> PipeTaskDefs] :
            pipes = <<Pipe_initialize(
                        NewPipe(hasWrangler, hasLoader, Named(tasks)),
                        [handle |-> "ok", wrangler |-> "ok",
                         loader |-> "ok"]).self>>
    /\ last = NoCall

NextRun ==
    \/ \E p \in DOMAIN pipes : Run(p)
    \/ \E p \in DOMAIN pipes : \E t \in DOMAIN pipes[p].task_map :
          RunTask(p, t)

SpecRun == InitReady /\ [][NextRun]_vars

\* The wrappers a host builds itself, Handle(api, catch_runtime_errors=...)
\* and the same for Wrangler and Loader: each has its own flag.
WithFlags(pipe, catch) ==
    [pipe EXCEPT !.handle.catch_runtime_errors = catch["handle"],
                 !.wrangler.catch_runtime_errors =
                    IF @ THEN catch["wrangler"] ELSE @,
                 !.loader.catch_runtime_errors =
                    IF @ THEN catch["loader"] ELSE @]

\* One SingleRequestTask whose wrappers are INITIALIZED and catch runtime
\* errors or not, each by its own flag.
InitFlags ==
    /\ \E hasWrangler \in BOOLEAN, hasLoader \in BOOLEAN,
          def \in PipeTaskDefs, catch \in [OperatorNames -> BOOLEAN] :
            /\ ~hasWrangler => catch["wrangler"]
            /\ ~hasLoader => catch["loader"]
            /\ pipes = <<WithFlags(WithOperators(
                                     NewPipe(hasWrangler, hasLoader,
                                             Named(<<def>>)),
                                     TRUE, TRUE),
                                   catch)>>
    /\ last = NoCall

NextFlags ==
    \E p \in DOMAIN pipes : \E t \in DOMAIN pipes[p].task_map : RunTask(p, t)

SpecFlags == InitFlags /\ [][NextFlags]_vars

\* A Pipe of a MultiRequestTask with placeholders and a SingleRequestTask
\* behind it, its Handle INITIALIZED, no Wrangler and no Loader.
InitMultiPipe ==
    /\ \E def \in MultiDefs, second \in PipeTaskDefs :
          pipes = <<WithOperators(
                       NewPipe(FALSE, FALSE, Named(<<def, second>>)),
                       TRUE, TRUE)>>
    /\ last = NoCall

NextMultiPipe ==
    \/ \E p \in DOMAIN pipes : Run(p)
    \/ \E p \in DOMAIN pipes : \E t \in DOMAIN pipes[p].task_map :
          RunTask(p, t)

SpecMultiPipe == InitMultiPipe /\ [][NextMultiPipe]_vars

\* Pipe.run step by step; last.pc is where the call is: "loop" in
\* `for task_name, task in self.task_map.items()` with last.task the next
\* task, "raised" when an exception left the loop, "done" behind the loop.

\* pipe.run() is called and enters its loop.
RunBegins(p) ==
    /\ last.pc # "loop"
    /\ \A t \in DOMAIN pipes[p].task_map : WithinData(pipes[p].task_map[t])
    /\ pipes' = pipes
    /\ last' = [Observe("Pipe.run", p, 1, pipes[p].status) EXCEPT !.pc = "loop"]

\* One pass of the loop: task.run() of the next task.
RunStep(p) ==
    /\ last.pc = "loop" /\ last.pipe = p
    /\ last.task \in DOMAIN pipes[p].task_map
    /\ \E env \in TaskEnvs(pipes[p].task_map[last.task], pipes[p]) :
        \E r \in {Pipe_run_task(pipes[p], last.task, env)} :
            /\ pipes' = [pipes EXCEPT ![p] = r.self]
            /\ last' = [last EXCEPT
                          !.calls = @ \o r.calls,
                          !.ran = Append(@, last.task),
                          !.raised = r.raised,
                          !.pc = IF r.raised # None THEN "raised" ELSE "loop",
                          !.task = IF r.raised # None THEN @ ELSE @ + 1]

\* Behind the loop: update_status, and the call returns its result.
RunEnds(p) ==
    /\ last.pc = "loop" /\ last.pipe = p
    /\ last.task > Len(pipes[p].task_map)
    /\ \E u \in {Pipe_update_status(pipes[p])} :
        /\ pipes' = [pipes EXCEPT ![p] = u.self]
        /\ last' = [last EXCEPT !.raised = u.raised, !.ret = u.ret,
                                 !.pc = "done"]

\* A Pipe of tasks of either class, initialized; its wrappers catch runtime
\* errors.
InitLoop ==
    /\ \E hasWrangler \in BOOLEAN, hasLoader \in BOOLEAN,
          tasks \in [1..NumTasks -> TaskDefs] :
            pipes = <<Pipe_initialize(
                        NewPipe(hasWrangler, hasLoader, Named(tasks)),
                        [handle |-> "ok", wrangler |-> "ok",
                         loader |-> "ok"]).self>>
    /\ last = NoCall

NextLoop ==
    \E p \in DOMAIN pipes :
        \/ RunBegins(p)
        \/ RunStep(p)
        \/ RunEnds(p)

SpecLoop == InitLoop /\ [][NextLoop]_vars

\* No Pipe yet.
InitConstruct ==
    /\ pipes = << >>
    /\ last = NoCall

NextConstruct == Construct

SpecConstruct == InitConstruct /\ [][NextConstruct]_vars

\* A MultiRequestTask with placeholders, its Handle INITIALIZED, no
\* Wrangler and no Loader.
InitMulti ==
    /\ \E def \in MultiDefs :
          pipes = <<WithOperators(NewPipe(FALSE, FALSE, Named(<<def>>)),
                                  TRUE, TRUE)>>
    /\ last = NoCall

NextMulti ==
    \E p \in DOMAIN pipes : \E t \in DOMAIN pipes[p].task_map :
        \/ RunTask(p, t)
        \/ RunRequest(p, t)

SpecMulti == InitMulti /\ [][NextMulti]_vars

\* A task run by its host: run and the three stage methods.
NextTask ==
    \E p \in DOMAIN pipes : \E t \in DOMAIN pipes[p].task_map :
        \/ RunTask(p, t)
        \/ RunRequest(p, t)
        \/ RunWrangle(p, t)
        \/ RunLoad(p, t)

SpecTask == InitTask /\ [][NextTask]_vars

----------------------------------------------------------------------------
\* Properties.

\* The Pipe and the task the last call was made on.
LastPipe == pipes[last.pipe]

LastTask == LastPipe.task_map[last.task]

\* The last call was a task method that returned (it did not raise).
TaskMethods == {"Task.run", "run_request", "run_wrangle", "run_load"}

Returned(ops) == last.op \in ops /\ last.raised = None

\* The stage statuses of a task.
StageValues(task) == {task.op_statuses[op] : op \in DOMAIN task.op_statuses}

AllStages(task, value) ==
    \A op \in DOMAIN task.op_statuses : task.op_statuses[op] = value

\* Task.run ran stage `op` in the last call: its returned map has a status.
Attempted(op) == op \in DOMAIN last.statuses /\ last.statuses[op] # None

\* C1: when a task method returns, the task status is the status all the
\* configured stages share if they share one, and INCOMPLETE if two of them
\* differ.
C1_UpdateStatusAggregates ==
    Returned(TaskMethods) =>
        /\ (\A a, b \in DOMAIN LastTask.op_statuses :
                LastTask.op_statuses[a] = LastTask.op_statuses[b])
              => LastTask.status = LastTask.op_statuses["handle"]
        /\ (\E a, b \in DOMAIN LastTask.op_statuses :
                LastTask.op_statuses[a] # LastTask.op_statuses[b])
              => LastTask.status = "incomplete"

\* A stage method returned on a task whose stages are COMPLETE, FAIL and
\* PENDING, and the task is INCOMPLETE.
C1_Witness ==
    /\ Returned({"run_wrangle"})
    /\ LastTask.op_statuses = [handle |-> "complete", wrangle |-> "fail",
                               load |-> "pending"]
    /\ LastTask.status = "incomplete"

\* C2: in every Task.run, first or repeated, wrangle is run only if the
\* handle stage ended COMPLETE in that run, and load only if wrangle was run
\* and ended COMPLETE in that run.
C2_StageOnlyAfterCompletePredecessor ==
    Returned({"Task.run"}) =>
        /\ Attempted("wrangle") => LastTask.op_statuses["handle"] = "complete"
        /\ Attempted("load") =>
              Attempted("wrangle") /\ last.statuses["wrangle"] = "complete"

\* C3 as claimed: after Task.run returns, the task is FAIL whenever some
\* configured stage is FAIL, and COMPLETE only when all are COMPLETE.
C3_FailedWheneverAStageFailed ==
    Returned({"Task.run"}) =>
        /\ "fail" \in StageValues(LastTask) => LastTask.status = "fail"
        /\ LastTask.status = "complete" => AllStages(LastTask, "complete")

\* C3 amended: after Task.run returns, the task is FAIL exactly when every
\* configured stage is FAIL, COMPLETE exactly when every one is COMPLETE,
\* and INCOMPLETE when a FAIL stage stands beside a stage of another status.
C3_FailedOnlyWhenAllStagesFailed ==
    Returned({"Task.run"}) =>
        /\ LastTask.status = "fail" <=> AllStages(LastTask, "fail")
        /\ LastTask.status = "complete" <=> AllStages(LastTask, "complete")
        /\ ("fail" \in StageValues(LastTask) /\ ~AllStages(LastTask, "fail"))
              => LastTask.status = "incomplete"

\* Task.run returned with the handle stage FAIL, wrangle left PENDING and the
\* task INCOMPLETE.
C3_Witness ==
    /\ Returned({"Task.run"})
    /\ "wrangle" \in DOMAIN LastTask.op_statuses
    /\ LastTask.op_statuses["handle"] = "fail"
    /\ LastTask.op_statuses["wrangle"] = "pending"
    /\ LastTask.status = "incomplete"

\* C4: in every state, also after a call that raised, each task's status is
\* the aggregate of its stage statuses.
C4_StatusInStepWithStages ==
    \A p \in DOMAIN pipes : \A t \in DOMAIN pipes[p].task_map :
        pipes[p].task_map[t].status = update_status(pipes[p].task_map[t]).status

\* Every task of the Pipe has the stage its load stage reads (no Loader
\* without a Wrangler), so no Task.run of the Pipe raises a KeyError.
StagesChain(pipe) == pipe.loader.present => pipe.wrangler.present

\* C5: Pipe.run does not raise because a stage failed; it returns a status.
C5_RunReturnsStatus ==
    (last.op = "Pipe.run" /\ StagesChain(LastPipe)) =>
        last.raised = None /\ last.ret \in PipeStatus

\* The Pipe status that the statuses of the tasks give, from status `before`.
RecomputedStatus(pipe, before) ==
    IF \A t \in DOMAIN pipe.task_map : pipe.task_map[t].status = "pending"
    THEN before
    ELSE IF \A t \in DOMAIN pipe.task_map : pipe.task_map[t].status = "complete"
    THEN "complete"
    ELSE "incomplete"

\* C6: after Pipe.run ran its tasks the Pipe status is the one recomputed
\* from the task statuses: unchanged if all are PENDING, COMPLETE if all are
\* COMPLETE, INCOMPLETE for every other mix, FAIL tasks included.
C6_RunRecomputesStatus ==
    (last.op = "Pipe.run" /\ StagesChain(LastPipe)) =>
        LastPipe.status = RecomputedStatus(LastPipe, last.before)

\* C7: Pipe.run runs every task once, in task_map order.
C7_RunsEveryTaskInOrder ==
    last.op = "Pipe.run" =>
        last.ran = [t \in 1..Len(LastPipe.task_map) |-> t]

\* The constructors Pipe.initialize calls when none of them stops it.
AllConstructors(pipe) ==
    <<[task |-> 0, call |-> "Handle"]>>
    \o (IF pipe.wrangler.present
        THEN <<[task |-> 0, call |-> "Wrangler"]>> ELSE << >>)
    \o (IF pipe.loader.present
        THEN <<[task |-> 0, call |-> "Loader"]>> ELSE << >>)

IsPrefix(s, t) == Len(s) <= Len(t) /\ \A i \in 1..Len(s) : s[i] = t[i]

\* The Handle's constructor raised in the last call, a Pipe.initialize.
HandleFailedToInitialize ==
    /\ last.op = "Pipe.initialize"
    /\ last.raised # None
    /\ last.calls = <<[task |-> 0, call |-> "Handle"]>>

\* C8: after a Pipe.initialize in which the Handle's construction failed,
\* the Pipe status is FAIL.
C8_HandleFailureFailsPipe ==
    HandleFailedToInitialize => LastPipe.status = "fail"

\* C9: Pipe.initialize constructs Handle, Wrangler, Loader in that order,
\* and still constructs the Wrangler and the Loader when the Handle failed.
C9_InitializesAllInOrder ==
    last.op = "Pipe.initialize" =>
        /\ IsPrefix(last.calls, AllConstructors(LastPipe))
        /\ LastPipe.handle.status = "fail"
              => last.calls = AllConstructors(LastPipe)

LastWrapper == LastPipe[last.wrapper]

C12_StatusChangesAtMostOnce ==
    (last.op \in {"initialize", "run"} /\ last.was # "uninitialized") =>
        LastWrapper.status = last.was

\* The get_data calls of the last call.
GetDataCalls == {i \in DOMAIN last.calls : last.calls[i].call = "get_data"}

\* C13: run on a wrapper that is not INITIALIZED never calls the capability
\* and, catching errors, yields (None, StatusError); and after Pipe.run on a
\* Pipe that was never initialized no get_data was called and the handle
\* stage of every task is FAIL.
C13_RunRefusedUnlessInitialized ==
    /\ (last.op = "run" /\ last.was # "initialized") =>
          /\ last.calls = << >>
          /\ LastWrapper.catch_runtime_errors =>
                /\ last.raised = None
                /\ last.response = None
                /\ last.error = "StatusError"
    /\ (last.op = "Pipe.run" /\ LastPipe.handle.status = "uninitialized") =>
          /\ GetDataCalls = {}
          /\ \A t \in DOMAIN LastPipe.task_map :
                LastPipe.task_map[t].op_statuses["handle"] = "fail"

\* C14: every pair a wrapper's run returns has exactly one null component.
C14_ExactlyOneNull ==
    (last.op = "run" /\ last.raised = None) =>
        (last.response = None) # (last.error = None)

\* C15: when the capability raises inside run, a wrapper that catches
\* runtime errors returns (None, error) and raises nothing, and a wrapper
\* that does not lets the exception through and returns no pair.
C15_CatchFlagDecides ==
    (last.op = "run" /\ last.outcome = "raise" /\ last.calls # << >>) =>
        IF LastWrapper.catch_runtime_errors
        THEN last.raised = None /\ last.response = None
             /\ last.error = "Exception"
        ELSE last.raised = "Exception" /\ last.error = None

\* load raised inside the run of a Loader that does not catch runtime
\* errors, and the caller got the exception.
C15_Witness ==
    /\ last.op = "run" /\ last.wrapper = "loader"
    /\ ~LastWrapper.catch_runtime_errors
    /\ last.outcome = "raise" /\ last.calls # << >>
    /\ last.raised = "Exception"

\* The last call was run_request, on its own or inside Task.run, made on a
\* MultiRequestTask.
MultiRequestCall ==
    /\ last.op \in {"run_request", "Task.run"}
    /\ LastTask.type = "MultiRequestTask"

\* C16: a run_request of a MultiRequestTask that returns passed its requests
\* to the Handle in mapping order, every attempted request but the last
\* ended COMPLETE, it stopped short of the last request only behind one that
\* did not, and its status map has one entry for each attempted request.
C16_StopsAtFirstFailure ==
    (MultiRequestCall /\ last.raised = None) =>
        /\ Len(last.passed) \in 1..LastTask.nreq
        /\ \A i \in 1..Len(last.passed) :
              last.passed[i] = LastTask.requests[i]
        /\ Len(last.request_statuses) = Len(last.passed)
        /\ Cardinality(GetDataCalls) <= Len(last.passed)
        /\ \A i \in 1..(Len(last.passed) - 1) :
              last.request_statuses[i] = "complete"
        /\ Len(last.passed) < LastTask.nreq =>
              last.request_statuses[Len(last.passed)] # "complete"

\* get_data raised on the first of two requests: the map holds that request
\* alone, as FAIL, and get_data was called once.
C16_Witness ==
    /\ MultiRequestCall /\ last.op = "run_request" /\ last.raised = None
    /\ LastTask.nreq = 2
    /\ last.request_statuses = <<"fail">>
    /\ Cardinality(GetDataCalls) = 1

\* The responses the last call appended to data['handle'].
ResponsesOfCall ==
    SubSeq(LastTask.handle_data,
           Len(LastTask.handle_data) - Len(last.request_statuses) + 1,
           Len(LastTask.handle_data))

\* The first request behind the first that holds the placeholder <<name>>.
FirstUse(task, name) ==
    CHOOSE i \in 2..Len(task.requests) :
        /\ HasPlaceholder(json_dumps(task.requests[i]))
        /\ \A j \in 2..(i - 1) : ~HasPlaceholder(json_dumps(task.requests[j]))

\* C17: a run_request leaves every cached list as it was; a list it adds to
\* the cache is the distinct values, in order of first appearance, of the
\* response before the placeholder's first use; and every request it
\* resolved holds the cached list.
C17_CachedOnce ==
    MultiRequestCall =>
        /\ \A name \in DOMAIN last.cache_before :
              /\ name \in DOMAIN LastTask.cached_unique_values
              /\ LastTask.cached_unique_values[name] = last.cache_before[name]
        /\ \A name \in DOMAIN LastTask.cached_unique_values :
              name \notin DOMAIN last.cache_before =>
                 LastTask.cached_unique_values[name] =
                    unique(json_normalize(
                              ResponsesOfCall[FirstUse(LastTask, name) - 1]
                           ).columns[name], << >>)
        /\ \A i \in 2..Len(last.passed) :
              Get(last.passed[i], <<"ids">>, << >>) =
                 Join(LastTask.cached_unique_values[AccountId],
                      Get(LastTask.requests[i], SeparatorKey, DefaultSeparator))

\* A second run_request whose first response holds the ids 1, 2, 3 resolved
\* its second request from the list 1, 2 cached by the first run.
C17_Witness ==
    /\ MultiRequestCall /\ last.op = "run_request" /\ last.raised = None
    /\ AccountId \in DOMAIN last.cache_before
    /\ last.cache_before[AccountId] = << <<"1">>, <<"2">> >>
    /\ Len(last.passed) = 2
    /\ ResponsesOfCall[1] = "accounts 1, 2, 3"
    /\ last.passed[2] = <<[key |-> <<"ids">>, value |-> <<"1", ",", " ", "2">>]>>

\* C18: whenever a request behind the first is reached and the values of
\* its placeholder are known, the Handle gets the request with the
\* placeholder replaced by the values joined with the request's %separator%,
\* or with ", " if it has none.
C18_JoinedWithSeparator ==
    MultiRequestCall =>
        \A i \in 2..LastTask.nreq :
            ( /\ Len(last.request_statuses) >= i - 1
              /\ last.request_statuses[i - 1] = "complete"
              /\ AccountId \in DOMAIN LastTask.cached_unique_values ) =>
                /\ Len(last.passed) >= i
                /\ Get(last.passed[i], <<"ids">>, << >>) =
                      Join(LastTask.cached_unique_values[AccountId],
                           Get(LastTask.requests[i], SeparatorKey,
                               DefaultSeparator))

\* The keys of a request, in order.
Keys(request) == [n \in DOMAIN request |-> request[n].key]

\* C19: every request passed to the Handle behind a placeholder resolution
\* has the fields of the request it was made from and no placeholder left
\* in any value.
C19_ResolvedRequestsAreValid ==
    MultiRequestCall =>
        \A i \in 2..Len(last.passed) :
            /\ Keys(last.passed[i]) = Keys(LastTask.requests[i])
            /\ \A n \in DOMAIN last.passed[i] :
                  ~HasPlaceholder(last.passed[i][n].value)

\* C20: after a Task.run, first or repeated, data['handle'] holds the
\* responses of that run alone: one for each request a MultiRequestTask
\* attempted, the response of its request for a SingleRequestTask.
C20_DataOfLastRunOnly ==
    Returned({"Task.run"}) =>
        IF LastTask.type = "MultiRequestTask"
        THEN Len(LastTask.handle_data) = Len(last.request_statuses)
        ELSE LastTask.data.handle =
                IF LastTask.op_statuses["handle"] = "complete"
                THEN "response" ELSE None

\* C21: a call of a task method never replaces a stage result with None.
C21_ResultNeverReplacedByNone ==
    last.op \in TaskMethods =>
        \A stage \in DOMAIN LastTask.data :
            last.data_before[stage] # None => LastTask.data[stage] # None

\* The stage `name` of the last call called its capability.
Called(name) == \E i \in DOMAIN last.calls : last.calls[i].call = name

\* C25: a Task.run of a SingleRequestTask that has neither Wrangler nor
\* Loader calls no wrangle and no load and returns a status for handle
\* alone; when its get_data succeeds, that status is COMPLETE and a PENDING
\* task becomes COMPLETE.
C25_HandleOnlyTaskCompletes ==
    ( /\ last.op = "Task.run"
      /\ LastTask.type = "SingleRequestTask"
      /\ ~LastPipe.wrangler.present /\ ~LastPipe.loader.present ) =>
        /\ last.raised = None =>
              /\ DOMAIN last.statuses = {"handle"}
              /\ ~Called("wrangle") /\ ~Called("load")
        /\ (last.raised = None /\ Called("get_data")
              /\ LastTask.error = None) =>
              /\ last.statuses["handle"] = "complete"
              /\ LastTask.status = "complete"

\* The first run of a handle-only SingleRequestTask, its get_data
\* succeeding: the task went from PENDING to COMPLETE.
C25_Witness ==
    /\ Returned({"Task.run"})
    /\ LastTask.type = "SingleRequestTask"
    /\ ~LastPipe.wrangler.present /\ ~LastPipe.loader.present
    /\ last.status_before = "pending"
    /\ last.calls = <<[task |-> last.task, call |-> "get_data"]>>
    /\ LastTask.status = "complete"

\* C27: after a Pipe.initialize that returns on a Pipe with a Handle, a
\* Wrangler and a Loader, operator_statuses holds INITIALIZED under each of
\* handle, wrangler and loader.
C27_OperatorStatusesByKey ==
    ( /\ Returned({"Pipe.initialize"})
      /\ LastPipe.wrangler.present /\ LastPipe.loader.present ) =>
        LastPipe.operator_statuses =
            [handle |-> "initialized", wrangler |-> "initialized",
             loader |-> "initialized"]

\* C29: a Task.run of a task with a Handle and a Loader but no Wrangler
\* returns, and it ran load exactly if the handle stage ended COMPLETE.
C29_LoadFollowsHandle ==
    ( /\ last.op = "Task.run"
      /\ ~LastPipe.wrangler.present /\ LastPipe.loader.present ) =>
        /\ last.raised = None
        /\ Attempted("load") <=> LastTask.op_statuses["handle"] = "complete"

\* C30: run_request passes its first request to the Handle as it is,
\* placeholders included, and a call that went no further than a first
\* request that did not end COMPLETE leaves the cache as it was; a request
\* behind the first is passed only behind one that ended COMPLETE in the
\* same call.
C30_FirstRequestUnresolved ==
    MultiRequestCall =>
        /\ Len(last.passed) >= 1
        /\ last.passed[1] = LastTask.requests[1]
        /\ (Len(last.request_statuses) = 0
              \/ last.request_statuses[1] # "complete") =>
                 LastTask.cached_unique_values = last.cache_before
        /\ \A i \in 2..Len(last.passed) :
              last.request_statuses[i - 1] = "complete"

\* A second run_request of a task whose first request holds <<account_id>>,
\* with the ids cached by the first run: the Handle got the first request
\* with its placeholder.
C30_Witness ==
    /\ MultiRequestCall /\ last.op = "run_request"
    /\ AccountId \in DOMAIN last.cache_before
    /\ HasPlaceholder(json_dumps(LastTask.requests[1]))
    /\ Len(last.passed) >= 1
    /\ last.passed[1] = PlaceholderRequest(<< >>)

\* C26: a Pipe.__init__ given two definitions with the same name raises a
\* ValueError and makes no Pipe, whether the definitions are passed as the
\* tasks argument or read from a tasks file.
C26_DuplicateNamesRejected ==
    ( /\ last.op = "Pipe.__init__"
      /\ \E i, j \in DOMAIN last.ran : i # j /\ last.ran[i] = last.ran[j] ) =>
        /\ last.raised = "ValueError"
        /\ pipes = << >>

\* The log of a Pipeline.initialize that initializes every Pipe of ps.
ExpectedLog(ps) ==
    [i \in 1..(2 * Len(ps)) |->
        LET p == (i + 1) \div 2
        IN  IF i % 2 = 1
            THEN LogEntry(p, "credential_manager", <<ps[p].secret_id>>)
            ELSE LogEntry(p, "Pipe.initialize",
                          credential_manager(ps[p].secret_id))]

\* C22: Pipeline.run, run_pipe and run_task check the failed guard of the
\* target Pipe before they run anything: with the guard set the call fails
\* with the 'pipeline failed earlier' error and runs nothing, with the guard
\* unset it goes on to Pipe.run (of every Pipe, of the named Pipe) or to
\* Pipe.run_task of the named task.
C22_GuardCheckedBeforeRunning ==
    LET log == last.log
        checked(p) == LogEntry(p, "_check_pipe_not_failed", << >>)
        target(call) ==
            IF last.guards[last.pipe]
            THEN last.raised = PipelineFailed /\ log = <<checked(last.pipe)>>
            ELSE log = <<checked(last.pipe), LogEntry(last.pipe, call, << >>)>>
    IN  /\ last.op = "Pipeline.run_pipe" => target("Pipe.run")
        /\ last.op = "Pipeline.run_task" => target("Pipe.run_task")
        /\ last.op = "Pipeline.run" =>
              /\ log # << >>
              /\ \A i \in DOMAIN log :
                    IF i % 2 = 1
                    THEN /\ log[i] = checked((i + 1) \div 2)
                         /\ last.guards[log[i].pipe] =>
                               i = Len(log) /\ last.raised = PipelineFailed
                    ELSE /\ log[i] = LogEntry(i \div 2, "Pipe.run", << >>)
                         /\ ~last.guards[log[i].pipe]
              /\ last.raised = None => Len(log) = 2 * Len(pipes)

\* C23: no Pipe has its failed guard set, whatever failed during the
\* initializations and the runs before, and no call ends with the 'pipeline
\* failed earlier' error.
C23_GuardNeverSet ==
    /\ \A p \in DOMAIN pipes : ~pipes[p].pipe_failed
    /\ last.raised # PipelineFailed

\* A Pipe whose Handle failed to initialize was run through the Pipeline: the
\* guard let the run pass.
C23_Witness ==
    /\ last.op = "Pipeline.run_pipe"
    /\ pipes[last.pipe].handle.status = "fail"
    /\ ~pipes[last.pipe].pipe_failed
    /\ last.log = <<LogEntry(last.pipe, "_check_pipe_not_failed", << >>),
                    LogEntry(last.pipe, "Pipe.run", << >>)>>
    /\ \E t \in DOMAIN pipes[last.pipe].task_map :
          pipes[last.pipe].task_map[t].status = "fail"

\* C24: a Pipe whose status is COMPLETE has every task COMPLETE, after any
\* sequence of Pipe.run and Pipe.run_task calls.
C24_CompletePipeHasCompleteTasks ==
    \A p \in DOMAIN pipes :
        pipes[p].status = "complete" =>
            \A t \in DOMAIN pipes[p].task_map :
                pipes[p].task_map[t].status = "complete"

\* C28: Pipeline.initialize takes the Pipes in the order of the pipe map, for
\* each one asks the credential manager for the Pipe's own secret id and then
\* calls Pipe.initialize with what it returned; an exception of either ends
\* the call, passes to the caller, and the Pipes after the one that raised
\* are left as they were (UNINITIALIZED operators, IDLE, if they were so).
C28_InitializeInOrder ==
    [][last'.op = "Pipeline.initialize" =>
        LET log == last'.log
        IN  /\ log # << >>
            /\ IsPrefix(log, ExpectedLog(pipes))
            /\ last'.raised = None => log = ExpectedLog(pipes)
            /\ last'.raised # None =>
                  /\ last'.pipe \in DOMAIN pipes
                  /\ log[Len(log)].pipe = last'.pipe
                  /\ \A p \in DOMAIN pipes :
                        p > last'.pipe => pipes'[p] = pipes[p]]_vars

\* The first Pipe's initialization raised and the second Pipe, never
\* initialized before, is still IDLE with an UNINITIALIZED Handle.
C28_Witness ==
    /\ last.op = "Pipeline.initialize"
    /\ last.raised # None
    /\ last.pipe = 1
    /\ Len(pipes) > 1
    /\ pipes[2].status = "idle"
    /\ pipes[2].handle.status = "uninitialized"

\* run_request of the last call, made on a MultiRequestTask, returned: the
\* call was run_request and returned, or it was a Task.run whose map has the
\* handle stage.
MultiRequestReturned ==
    /\ MultiRequestCall
    /\ last.op = "run_request" => last.raised = None
    /\ last.op = "Task.run" => "handle" \in DOMAIN last.statuses

\* Every request of the task was attempted in the last call and ended
\* COMPLETE.
AllRequestsComplete ==
    /\ Len(last.request_statuses) = LastTask.nreq
    /\ \A i \in DOMAIN last.request_statuses :
          last.request_statuses[i] = "complete"

\* C31: after a run_request of a MultiRequestTask returns, the handle stage
\* is COMPLETE exactly if every request was attempted and ended COMPLETE and
\* FAIL exactly if the last attempted request failed; a Task.run calls wrangle
\* only if every request ended COMPLETE.
C31_HandleStatusFollowsRequests ==
    MultiRequestReturned =>
        /\ last.request_statuses # << >>
        /\ (LastTask.op_statuses["handle"] = "complete") <=> AllRequestsComplete
        /\ (LastTask.op_statuses["handle"] = "fail") <=>
              (last.request_statuses[Len(last.request_statuses)] = "fail")
        /\ Called("wrangle") => AllRequestsComplete

\* A Task.run whose second of two requests failed: the handle stage is FAIL
\* and wrangle, though configured, was not called.
C31_Witness ==
    /\ MultiRequestReturned /\ last.op = "Task.run"
    /\ LastPipe.wrangler.present
    /\ last.request_statuses = <<"complete", "fail">>
    /\ LastTask.op_statuses["handle"] = "fail"
    /\ ~Called("wrangle")

\* C33: after a Task.run that returns, first or repeated, the task's error
\* is set exactly if one of its stages is FAIL.
C33_ErrorIffAStageFailed ==
    Returned({"Task.run"}) =>
        (LastTask.error # None) <=>
            (\E op \in DOMAIN LastTask.op_statuses :
                LastTask.op_statuses[op] = "fail")

\* The wrapper that runs stage `op`.
WrapperOf(pipe, op) ==
    CASE op = "handle"  -> pipe.handle
      [] op = "wrangle" -> pipe.wrangler
      [] op = "load"    -> pipe.loader

\* C34: a stage is INCOMPLETE after a Task.run only if that run raised, and
\* the stage's wrapper does not catch runtime errors; after a Task.run that
\* returns every stage is PENDING, COMPLETE or FAIL.
C34_IncompleteIsTransient ==
    last.op = "Task.run" =>
        \A op \in DOMAIN LastTask.op_statuses :
            LastTask.op_statuses[op] = "incomplete" =>
                /\ last.raised # None
                /\ ~WrapperOf(LastPipe, op).catch_runtime_errors

\* C35: a Pipe that is READY has a Handle that is INITIALIZED, after any
\* sequence of Pipe.initialize and Pipe.run calls.
C35_ReadyHasInitializedHandle ==
    \A p \in DOMAIN pipes :
        pipes[p].status = "ready" => pipes[p].handle.status = "initialized"

\* C36: a Task.run changes nothing but its own task: the wrappers of the
\* Pipe keep their status and initialize_error, every other task of the Pipe
\* stays as it was, and so does the Pipe status.
C36_RunChangesOnlyItsTask ==
    [][last'.op = "Task.run" =>
        /\ \A q \in DOMAIN pipes :
              /\ pipes'[q].handle = pipes[q].handle
              /\ pipes'[q].wrangler = pipes[q].wrangler
              /\ pipes'[q].loader = pipes[q].loader
              /\ pipes'[q].status = pipes[q].status
              /\ pipes'[q].operator_statuses = pipes[q].operator_statuses
              /\ \A t \in DOMAIN pipes[q].task_map :
                    (q # last'.pipe \/ t # last'.task) =>
                        pipes'[q].task_map[t] = pipes[q].task_map[t]]_vars

\* A task failed in a Task.run of its own while the Pipe is COMPLETE and its
\* other task is COMPLETE, as Pipe.run left them.
C36_Witness ==
    /\ last.op = "Task.run" /\ last.raised = None
    /\ LastTask.status = "fail"
    /\ LastPipe.status = "complete"
    /\ \E t \in DOMAIN LastPipe.task_map :
          t # last.task /\ LastPipe.task_map[t].status = "complete"

\* The responses a step appended to data['handle'] of task t of Pipe p.
Appended(before, after) ==
    SubSeq(after.handle_data, Len(before.handle_data) + 1,
           Len(after.handle_data))

\* In this step task t of Pipe p reached the first request that uses
\* <<account_id>> with nothing cached for it and behind a response that has
\* no such column.
LookupFailed(before, after) ==
    /\ before.type = "MultiRequestTask"
    /\ \E i \in 2..before.nreq : HasPlaceholder(json_dumps(before.requests[i]))
    /\ AccountId \notin DOMAIN before.cached_unique_values
    /\ Len(Appended(before, after)) >= FirstUse(before, AccountId) - 1
    /\ \A i \in 1..(FirstUse(before, AccountId) - 1) :
          Appended(before, after)[i] \in Responses
    /\ AccountId \notin DOMAIN json_normalize(
          Appended(before, after)[FirstUse(before, AccountId) - 1]).columns

\* C32: when a request behind the first names a column that the response
\* before it does not have and the cache does not hold, the KeyError leaves
\* Task.run and Pipe.run, the request is not passed to the Handle, no later
\* request and no later task is run, the error is in no stage's record and
\* the handle stage stays COMPLETE.
C32_LookupFailureEndsTheRun ==
    [][\A p \in DOMAIN pipes : \A t \in DOMAIN pipes[p].task_map :
        ( /\ last'.op \in {"Task.run", "Pipe.run"}
          /\ last'.pipe = p
          /\ last'.op = "Task.run" => last'.task = t
          /\ LookupFailed(pipes[p].task_map[t], pipes'[p].task_map[t]) ) =>
            LET before == pipes[p].task_map[t]
                after  == pipes'[p].task_map[t]
                k      == FirstUse(before, AccountId)
            IN  /\ last'.raised = "KeyError"
                /\ Len(Appended(before, after)) = k - 1
                /\ Cardinality({i \in DOMAIN last'.calls :
                                   last'.calls[i].task = t}) = k - 1
                /\ after.op_statuses["handle"] = "complete"
                /\ after.error = None
                /\ last'.ran # << >> /\ last'.ran[Len(last'.ran)] = t
                /\ \A u \in DOMAIN pipes[p].task_map :
                      u > t => pipes'[p].task_map[u] = pipes[p].task_map[u]
                /\ pipes'[p].status = pipes[p].status]_vars

\* A Pipe.run whose first task got a response without account ids: the
\* KeyError left Pipe.run behind one get_data call, the task's handle stage
\* is COMPLETE and the second task is still PENDING.
C32_Witness ==
    /\ last.op = "Pipe.run" /\ last.raised = "KeyError"
    /\ last.ran = <<1>>
    /\ last.calls = <<[task |-> 1, call |-> "get_data"]>>
    /\ LastPipe.task_map[1].handle_data = <<"no accounts">>
    /\ LastPipe.task_map[1].op_statuses["handle"] = "complete"
    /\ LastPipe.task_map[1].error = None
    /\ LastPipe.task_map[2].status = "pending"

\* The calls of capability `name` made for task t in the last call.
CallsFor(t, name) ==
    {i \in DOMAIN last.calls :
        last.calls[i].task = t /\ last.calls[i].call = name}

\* C37: a Pipe.run whose wrappers catch runtime errors gets through its task
\* loop: every pass takes the next task of the map and no exception leaves
\* the loop, so the loop ends behind the last task; get_data is called at
\* most once for each request of each task and wrangle and load at most once
\* for each task; and behind the loop no stage is INCOMPLETE.
C37_RunFinishesItsLoop ==
    (last.op = "Pipe.run" /\ last.pc # "idle") =>
        /\ last.pc \in {"loop", "done"}
        /\ last.task \in 1..(Len(LastPipe.task_map) + 1)
        /\ last.ran = [t \in 1..(last.task - 1) |-> t]
        /\ last.pc = "done" => last.task = Len(LastPipe.task_map) + 1
        /\ \A t \in DOMAIN LastPipe.task_map :
              /\ Cardinality(CallsFor(t, "get_data"))
                    <= LastPipe.task_map[t].nreq
              /\ Cardinality(CallsFor(t, "wrangle")) <= 1
              /\ Cardinality(CallsFor(t, "load")) <= 1
              /\ last.pc = "done" =>
                    \A op \in DOMAIN LastPipe.task_map[t].op_statuses :
                        LastPipe.task_map[t].op_statuses[op] # "incomplete"

====
